---- MODULE Spec2Model ----
(***************************************************************************)
(* The column engine of parity-db (src/src/column.rs): one column with its *)
(* current index table, its tiered value tables and the queue of older     *)
(* index tables that are being drained into the current one.               *)
(*                                                                         *)
(* The index table, the value table, the compression codec and the log     *)
(* live outside column.rs; they are modelled here from their description   *)
(* (chunked probe table, fixed-slot tables with a stored key suffix and a  *)
(* reference count).  A planned record is visible to every later call (the *)
(* log overlay gives read-your-writes), so a plan takes effect in the step *)
(* that emits it.                                                          *)
(***************************************************************************)
EXTENDS Integers, Sequences, FiniteSets, TLC

VARIABLES
    tables,       \* Tables { index, value }
    reindex,      \* Reindex { queue, progress }
    ref_counted,  \* Column.ref_counted
    preimage,     \* Column.preimage
    batch,        \* pairs returned by reindex and not yet fed to write_reindex_plan
    drop,         \* drop signal returned by reindex and not yet passed to drop_index
    vp,           \* validate_plan in progress: index_bits of record.table, or -1
    rx,           \* reindex calls in progress: thread -> the progress it loaded, or -1
    shadow,       \* history: key -> last value handed to write_plan, NoValue once deleted
    refs,         \* history: key -> inserts minus effective deletes (ref_counted columns)
    last,         \* history: the last call and what it returned
    calls,        \* history: the number of calls made, up to MaxCalls
    run           \* thread -> its call in progress (arguments, position, result), or Idle

vars ==
    <<tables, reindex, ref_counted, preimage, batch, drop, vp, rx, shadow, refs,
      last, calls, run>>

(***************************************************************************)
(* Bounds.  The source's START_BITS is 16, MAX_REBALANCE_BATCH is 8192 and *)
(* an index chunk has 64 entries; the model keeps their roles and scales   *)
(* them down so that a full chunk, a cut batch and a second reindex all    *)
(* happen within a few calls.                                              *)
(***************************************************************************)
START_BITS == 1

MAX_REBALANCE_BATCH == 2

CHUNK_ENTRIES == 2

\* number of trigger_reindex calls explored
MaxReindex == 2

\* highest reference count explored
MaxRefs == 2

\* number of calls explored from the initial state
MaxCalls == 5

\* threads that call reindex
Threads == {1, 2}

MaxBits == START_BITS + MaxReindex

\* bits of a key that the index tables look at
KEY_BITS == MaxBits

RECURSIVE Pow2(_)
Pow2(n) == IF n <= 0 THEN 1 ELSE 2 * Pow2(n - 1)

\* Option::None of a record, of a probe position, of a value
None == [none |-> TRUE]

NoSub == -1

NoValue == <<>>

\* a thread outside any call
Idle == [op |-> "idle"]

(***************************************************************************)
(* Keys: p is the prefix the index tables use, s the suffix a value-table  *)
(* slot stores.  Distinct keys have distinct suffixes.                     *)
(***************************************************************************)
\* keys of the first chunk of every index table
NearKeys ==
    { [p |-> 0, s |-> 1], [p |-> 0, s |-> 2],
      [p |-> 1, s |-> 3], [p |-> 1, s |-> 4] }

\* keys of the second chunk of the first index table
FarKeys ==
    { [p |-> 4, s |-> 5], [p |-> 5, s |-> 6], [p |-> 6, s |-> 7] }

\* the key that equals the key prefix recover_key_prefix returns for it
ZeroKey == [p |-> 0, s |-> 0]

Keys == NearKeys \cup FarKeys \cup {ZeroKey}

\* the keys of the mixed workload
SomeKeys == { k \in NearKeys : k.s <= 3 }

\* a short value, a long compressible value, a long incompressible value
Values == { <<1>>, <<2, 2, 2>>, <<1, 2, 1>> }

\* the values of the mixed workload: one that lands in tier 0, one in the blob tier
SomeValues == { v \in Values : Len(v) > 1 }

\* options.sizes: value_size of every tier but the blob tier
Sizes == <<2>>

NumTiers == Len(Sizes) + 1

CompressionTreshold == 2

(***************************************************************************)
(* Compression codec: run-length encoding, <<count, byte>> pairs.          *)
(***************************************************************************)
RECURSIVE RunLen(_, _)
RunLen(s, b) ==
    IF s = <<>> \/ Head(s) # b THEN 0 ELSE 1 + RunLen(Tail(s), b)

RECURSIVE Compress(_)
Compress(s) ==
    IF s = <<>> THEN <<>>
    ELSE LET n == RunLen(s, Head(s))
         IN  <<n, Head(s)>> \o Compress(SubSeq(s, n + 1, Len(s)))

RECURSIVE Decompress(_)
Decompress(c) ==
    IF Len(c) < 2 THEN <<>>
    ELSE [i \in 1..c[1] |-> c[2]] \o Decompress(SubSeq(c, 3, Len(c)))

(***************************************************************************)
(* Index table (crate::index::IndexTable).  A table of index_bits `bits`   *)
(* has 2^bits chunks of CHUNK_ENTRIES entries.  An entry holds the bits of *)
(* the key prefix that follow the chunk number, and an address.            *)
(***************************************************************************)
EmptyEntry == [pk |-> -1, tier |-> 0, off |-> 0]

IsEmpty(e) == e.pk = -1

TotalChunks(bits) == Pow2(bits)

ChunkIndex(bits, key) == key.p \div Pow2(KEY_BITS - bits)

PartialKey(bits, key) == key.p % Pow2(KEY_BITS - bits)

\* IndexTable::create_new
CreateNew(bits) ==
    [bits |-> bits,
     chunks |-> [c \in 0..(TotalChunks(bits) - 1) |->
                    [i \in 1..CHUNK_ENTRIES |-> EmptyEntry]]]

\* IndexTable::recover_key_prefix: the key with the prefix restored and no suffix
RecoverKeyPrefix(bits, c, e) ==
    [p |-> c * Pow2(KEY_BITS - bits) + e.pk, s |-> 0]

\* positions (0-based) of the chunk of `key` at or after `sub` that may hold `key`
Candidates(t, key, sub) ==
    { i \in sub..(CHUNK_ENTRIES - 1) :
        LET e == t.chunks[ChunkIndex(t.bits, key)][i + 1]
        IN  ~IsEmpty(e) /\ e.pk = PartialKey(t.bits, key) }

Min(S) == CHOOSE x \in S : \A y \in S : x <= y

\* IndexTable::get(key, sub_index): the probe entry at or after sub_index
IndexGet(t, key, sub) ==
    LET cs == Candidates(t, key, sub)
    IN  IF cs = {} THEN [entry |-> EmptyEntry, sub |-> 0]
        ELSE [entry |-> t.chunks[ChunkIndex(t.bits, key)][Min(cs) + 1],
              sub |-> Min(cs)]

\* free positions (0-based) of the chunk of `key`
FreeSlots(t, key) ==
    { i \in 0..(CHUNK_ENTRIES - 1) :
        IsEmpty(t.chunks[ChunkIndex(t.bits, key)][i + 1]) }

SetEntry(t, key, i, e) ==
    [t EXCEPT !.chunks[ChunkIndex(t.bits, key)][i + 1] = e]

\* IndexTable::write_insert_plan(key, address, sub_index)
IndexInsert(t, key, addr, sub) ==
    LET e == [pk |-> PartialKey(t.bits, key), tier |-> addr.tier, off |-> addr.off]
    IN  IF sub # NoSub
        THEN [outcome |-> "Written", table |-> SetEntry(t, key, sub, e)]
        ELSE IF FreeSlots(t, key) # {}
        THEN [outcome |-> "Written",
              table |-> SetEntry(t, key, Min(FreeSlots(t, key)), e)]
        ELSE [outcome |-> "NeedReindex", table |-> t]

\* IndexTable::write_remove_plan(key, sub_index)
IndexRemove(t, key, sub) ==
    LET e == t.chunks[ChunkIndex(t.bits, key)][sub + 1]
    IN  IF ~IsEmpty(e) /\ e.pk = PartialKey(t.bits, key)
        THEN SetEntry(t, key, sub, EmptyEntry)
        ELSE t

\* the non-empty entries among es[i..], in probe order
RECURSIVE NonEmptyFrom(_, _)
NonEmptyFrom(es, i) ==
    IF i > CHUNK_ENTRIES THEN <<>>
    ELSE (IF IsEmpty(es[i]) THEN <<>> ELSE <<es[i]>>) \o NonEmptyFrom(es, i + 1)

\* the non-empty entries of a chunk, in probe order
NonEmpty(es) == NonEmptyFrom(es, 1)

(***************************************************************************)
(* Value table (crate::table::ValueTable).  A slot is free or holds the    *)
(* key suffix, the stored bytes, the compressed flag and a reference       *)
(* count.  Offsets count from 1; an insert takes the lowest free slot.     *)
(***************************************************************************)
FreeSlot == [s |-> 0, v |-> <<>>, c |-> FALSE, rc |-> 0]

IsLive(tbl, off) == off \in 1..Len(tbl) /\ tbl[off].rc > 0

RECURSIVE Trim(_)
Trim(tbl) ==
    IF tbl # <<>> /\ tbl[Len(tbl)].rc = 0
    THEN Trim(SubSeq(tbl, 1, Len(tbl) - 1))
    ELSE tbl

\* ValueTable::get(key, offset): the slot, when it holds the key
ValueGet(tbl, key, off) ==
    IF IsLive(tbl, off) /\ tbl[off].s = key.s THEN tbl[off] ELSE None

\* ValueTable::has_key_at(offset, key)
HasKeyAt(tbl, off, key) == ValueGet(tbl, key, off) # None

\* ValueTable::get_with_meta(offset)
GetWithMeta(tbl, off) == IF IsLive(tbl, off) THEN tbl[off] ELSE None

NextOffset(tbl) ==
    LET free == { o \in 1..Len(tbl) : tbl[o].rc = 0 }
    IN  IF free = {} THEN Len(tbl) + 1 ELSE Min(free)

\* ValueTable::write_insert_plan(key, value, compressed): the new offset and table
ValueInsert(tbl, key, bytes, compressed) ==
    LET off  == NextOffset(tbl)
        slot == [s |-> key.s, v |-> bytes, c |-> compressed, rc |-> 1]
    IN  [off |-> off,
         table |-> IF off > Len(tbl) THEN Append(tbl, slot)
                   ELSE [tbl EXCEPT ![off] = slot]]

\* ValueTable::write_replace_plan(offset, key, value, compressed)
ValueReplace(tbl, off, key, bytes, compressed) ==
    [tbl EXCEPT ![off] = [s |-> key.s, v |-> bytes, c |-> compressed, rc |-> @.rc]]

\* ValueTable::write_remove_plan(offset)
ValueRemove(tbl, off) ==
    IF IsLive(tbl, off) THEN Trim([tbl EXCEPT ![off] = FreeSlot]) ELSE tbl

\* ValueTable::write_inc_ref(offset)
ValueIncRef(tbl, off) ==
    IF IsLive(tbl, off) THEN [tbl EXCEPT ![off].rc = @ + 1] ELSE tbl

\* ValueTable::write_dec_ref(offset): whether the slot is still referenced, and the table
ValueDecRef(tbl, off) ==
    IF ~IsLive(tbl, off) THEN [alive |-> FALSE, table |-> tbl]
    ELSE IF tbl[off].rc = 1 THEN [alive |-> FALSE, table |-> ValueRemove(tbl, off)]
    ELSE [alive |-> TRUE, table |-> [tbl EXCEPT ![off].rc = @ - 1]]

\* value_size of the blob tier
BlobValueSize == 3

\* ValueTable::value_size, by tier (0-based)
ValueSize(tier) == IF tier < Len(Sizes) THEN Sizes[tier + 1] ELSE BlobValueSize

(***************************************************************************)
(* Column (src/src/column.rs).  T stands for the Tables behind self.tables *)
(* and R for the Reindex behind self.reindex.                              *)
(***************************************************************************)
Address(off, tier) == [tier |-> tier, off |-> off]

\* Column::get_in_index, its loop entered at probe position `sub`
RECURSIVE GetInIndexFrom(_, _, _, _)
GetInIndexFrom(key, index, T, sub) ==
    LET r == IndexGet(index, key, sub)
    IN  IF IsEmpty(r.entry) THEN None
        ELSE LET slot == ValueGet(T.value[r.entry.tier + 1], key, r.entry.off)
             IN  IF slot # None
                 THEN [tier |-> r.entry.tier,
                       value |-> IF slot.c THEN Decompress(slot.v) ELSE slot.v]
                 ELSE GetInIndexFrom(key, index, T, r.sub + 1)

GetInIndex(key, index, T) == GetInIndexFrom(key, index, T, 0)

\* the loop of Column::get over reindex.queue, from queue position i
RECURSIVE GetInQueue(_, _, _, _)
GetInQueue(key, T, queue, i) ==
    IF i > Len(queue) THEN None
    ELSE IF GetInIndex(key, queue[i], T) # None THEN GetInIndex(key, queue[i], T)
    ELSE GetInQueue(key, T, queue, i + 1)

\* Column::get: the value, or NoValue
GetIn(T, R, key) ==
    IF GetInIndex(key, T.index, T) # None THEN GetInIndex(key, T.index, T).value
    ELSE IF GetInQueue(key, T, R.queue, 1) # None
    THEN GetInQueue(key, T, R.queue, 1).value
    ELSE NoValue

Get(key) == GetIn(tables, reindex, key)

\* Iterator::position over tables.value: the first tier (0-based), from the
\* i-th table on, whose value_size holds len; -1 when there is none
RECURSIVE Position(_, _, _)
Position(value_sizes, len, i) ==
    IF i > Len(value_sizes) THEN -1
    ELSE IF len <= value_sizes[i] THEN i - 1
    ELSE Position(value_sizes, len, i + 1)

\* compress_internal, had it kept every compressed form that is not longer
CompressInternalIn_KeepNotLonger(treshold, value, value_sizes) ==
    LET cvalue == Compress(value)
        keep   == Len(value) > treshold /\ Len(cvalue) <= Len(value)
        len    == IF keep THEN Len(cvalue) ELSE Len(value)
        pos    == Position(value_sizes, len, 1)
    IN  [bytes |-> IF keep THEN cvalue ELSE value,
         compressed |-> keep,
         tier |-> IF pos # -1 THEN pos ELSE Len(value_sizes) - 1]

\* Column::compress_internal for a compression threshold and the value_size of
\* each table of tables.value: the bytes to store, whether compressed, the
\* target tier
CompressInternalIn(treshold, value, value_sizes) ==
    LET cvalue == Compress(value)
        keep   == Len(value) > treshold /\ Len(cvalue) < Len(value)
        len    == IF keep THEN Len(cvalue) ELSE Len(value)
        pos    == Position(value_sizes, len, 1)
    IN  [bytes |-> IF keep THEN cvalue ELSE value,
         compressed |-> keep,
         tier |-> IF pos # -1 THEN pos ELSE Len(value_sizes) - 1]

\* the value_size of each table of the column's tables.value
ValueSizes == [t \in 1..NumTiers |-> ValueSize(t - 1)]

\* Column::compress_internal in the column of this model
CompressInternal(value) ==
    CompressInternalIn(CompressionTreshold, value, ValueSizes)

\* Column::search_index, its loop entered at probe position `sub`;
\* `at` is 0 for the current index and i for reindex.queue[i]
RECURSIVE SearchIndexFrom(_, _, _, _, _)
SearchIndexFrom(key, index, T, at, sub) ==
    LET r == IndexGet(index, key, sub)
    IN  IF IsEmpty(r.entry) THEN None
        ELSE IF HasKeyAt(T.value[r.entry.tier + 1], r.entry.off, key)
        THEN [at |-> at, id |-> index.bits, sub |-> r.sub,
              tier |-> r.entry.tier, off |-> r.entry.off]
        ELSE SearchIndexFrom(key, index, T, at, r.sub + 1)

SearchIndex(key, index, T, at) == SearchIndexFrom(key, index, T, at, 0)

RECURSIVE SearchQueue(_, _, _, _)
SearchQueue(key, T, queue, i) ==
    IF i > Len(queue) THEN None
    ELSE IF SearchIndex(key, queue[i], T, i) # None THEN SearchIndex(key, queue[i], T, i)
    ELSE SearchQueue(key, T, queue, i + 1)

\* Column::search_all_indexes
SearchAllIndexes(key, T, R) ==
    IF SearchIndex(key, T.index, T, 0) # None THEN SearchIndex(key, T.index, T, 0)
    ELSE SearchQueue(key, T, R.queue, 1)

\* trigger_reindex, had it pushed the displaced index to the front of the queue
TriggerReindex_PushFront(T, R) ==
    [tables  |-> [T EXCEPT !.index = CreateNew(T.index.bits + 1)],
     reindex |-> [R EXCEPT !.queue = <<T.index>> \o @]]

\* Column::trigger_reindex
TriggerReindex(T, R) ==
    [tables  |-> [T EXCEPT !.index = CreateNew(T.index.bits + 1)],
     reindex |-> [R EXCEPT !.queue = Append(@, T.index)]]

\* the index table a search result came from, with entry `sub` removed
RemoveAt(T, R, key, ex) ==
    IF ex.at = 0
    THEN [tables  |-> [T EXCEPT !.index = IndexRemove(@, key, ex.sub)],
          reindex |-> R]
    ELSE [tables  |-> T,
          reindex |-> [R EXCEPT !.queue[ex.at] = IndexRemove(@, key, ex.sub)]]

\* write_plan, Some(value), the key found, neither ref_counted nor preimage
WriteReplace(T, R, key, value, ex) ==
    LET c == CompressInternal(value)
    IN  IF ex.tier = c.tier
        THEN [tables  |-> [T EXCEPT !.value[c.tier + 1] =
                              ValueReplace(@, ex.off, key, c.bytes, c.compressed)],
              reindex |-> R, outcome |-> "Written", triggers |-> 0]
        ELSE LET T1  == [T EXCEPT !.value[ex.tier + 1] = ValueRemove(@, ex.off)]
                 ins == ValueInsert(T1.value[c.tier + 1], key, c.bytes, c.compressed)
                 T2  == [T1 EXCEPT !.value[c.tier + 1] = ins.table]
                 sub == IF ex.id = T.index.bits THEN ex.sub ELSE NoSub
                 r   == IndexInsert(T2.index, key, Address(ins.off, c.tier), sub)
             IN  [tables  |-> [T2 EXCEPT !.index = r.table],
                  reindex |-> R, outcome |-> r.outcome, triggers |-> 0]

\* the delete of a found key, had it ignored the reference count
WriteDelete_AlwaysRemove(T, R, key, ex, rc) ==
    LET T1 == [T EXCEPT !.value[ex.tier + 1] = ValueRemove(@, ex.off)]
        rm == RemoveAt(T1, R, key, ex)
    IN  [tables |-> rm.tables, reindex |-> rm.reindex,
         outcome |-> "Written", triggers |-> 0]

\* write_plan, None, the key found
WriteDelete(T, R, key, ex, rc) ==
    LET dec    == ValueDecRef(T.value[ex.tier + 1], ex.off)
        remove == IF rc THEN ~dec.alive ELSE TRUE
        T1     == [T EXCEPT !.value[ex.tier + 1] =
                      IF rc THEN dec.table ELSE ValueRemove(@, ex.off)]
        rm     == RemoveAt(T1, R, key, ex)
    IN  IF remove
        THEN [tables |-> rm.tables, reindex |-> rm.reindex,
              outcome |-> "Written", triggers |-> 0]
        ELSE [tables |-> T1, reindex |-> R, outcome |-> "Written", triggers |-> 0]

\* the write of a found key, had it not looked at the preimage flag
WriteExisting_NoPreimage(T, R, key, value, ex, rc, pre) ==
    IF rc
    THEN [tables  |-> [T EXCEPT !.value[ex.tier + 1] = ValueIncRef(@, ex.off)],
          reindex |-> R, outcome |-> "Written", triggers |-> 0]
    ELSE WriteReplace(T, R, key, value, ex)

\* write_plan, Some(value), the key found
WriteExisting(T, R, key, value, ex, rc, pre) ==
    IF rc
    THEN [tables  |-> [T EXCEPT !.value[ex.tier + 1] = ValueIncRef(@, ex.off)],
          reindex |-> R, outcome |-> "Written", triggers |-> 0]
    ELSE IF pre
    THEN [tables |-> T, reindex |-> R, outcome |-> "Skipped", triggers |-> 0]
    ELSE WriteReplace(T, R, key, value, ex)

\* the delete of an absent key, had it reported a written plan
WriteMissed_Written(T, R) ==
    [tables |-> T, reindex |-> R, outcome |-> "Written", triggers |-> 0]

\* write_plan, None, the key not found
WriteMissed(T, R) ==
    [tables |-> T, reindex |-> R, outcome |-> "Skipped", triggers |-> 0]

\* Column::write_plan: the tables and queue it leaves, what it returns, and the
\* number of trigger_reindex calls it made
RECURSIVE WritePlanRes(_, _, _, _, _, _)
WritePlanRes(T, R, key, value, rc, pre) ==
    LET ex == SearchAllIndexes(key, T, R)
    IN  IF value # NoValue
        THEN IF ex # None
             THEN WriteExisting(T, R, key, value, ex, rc, pre)
             ELSE LET c   == CompressInternal(value)
                      ins == ValueInsert(T.value[c.tier + 1], key, c.bytes, c.compressed)
                      T1  == [T EXCEPT !.value[c.tier + 1] = ins.table]
                      r   == IndexInsert(T1.index, key, Address(ins.off, c.tier), NoSub)
                  IN  IF r.outcome = "NeedReindex"
                      THEN LET tr  == TriggerReindex(T1, R)
                               rec == WritePlanRes(tr.tables, tr.reindex, key, value, rc, pre)
                           IN  [rec EXCEPT !.outcome = "NeedReindex",
                                           !.triggers = @ + 1]
                      ELSE [tables  |-> [T1 EXCEPT !.index = r.table],
                            reindex |-> R, outcome |-> "Written", triggers |-> 0]
        ELSE IF ex # None
             THEN WriteDelete(T, R, key, ex, rc)
             ELSE WriteMissed(T, R)

\* Column::write_plan up to its return or its call of trigger_reindex: with
\* `upgrade` the index insert returned NeedReindex and the locks are to be
\* upgraded, the value insert being planned
WritePlanLevel(T, R, key, value, rc, pre) ==
    IF value # NoValue /\ SearchAllIndexes(key, T, R) = None
    THEN LET c   == CompressInternal(value)
             ins == ValueInsert(T.value[c.tier + 1], key, c.bytes, c.compressed)
             T1  == [T EXCEPT !.value[c.tier + 1] = ins.table]
             r   == IndexInsert(T1.index, key, Address(ins.off, c.tier), NoSub)
         IN  IF r.outcome = "NeedReindex"
             THEN [tables |-> T1, reindex |-> R, outcome |-> "NeedReindex",
                   upgrade |-> TRUE]
             ELSE [tables |-> [T1 EXCEPT !.index = r.table], reindex |-> R,
                   outcome |-> "Written", upgrade |-> FALSE]
    ELSE LET res == WritePlanRes(T, R, key, value, rc, pre)
         IN  [tables |-> res.tables, reindex |-> res.reindex,
              outcome |-> res.outcome, upgrade |-> FALSE]

\* write_reindex_plan, had it inserted without searching the current index
RECURSIVE WriteReindexPlanRes_NoSearch(_, _, _, _)
WriteReindexPlanRes_NoSearch(T, R, key, addr) ==
    LET r == IndexInsert(T.index, key, addr, NoSub)
    IN  IF r.outcome = "NeedReindex"
        THEN LET tr  == TriggerReindex(T, R)
                 rec == WriteReindexPlanRes_NoSearch(tr.tables, tr.reindex, key, addr)
             IN  [rec EXCEPT !.outcome = "NeedReindex", !.triggers = @ + 1]
        ELSE [tables  |-> [T EXCEPT !.index = r.table],
              reindex |-> R, outcome |-> "Written", triggers |-> 0]

\* Column::write_reindex_plan
RECURSIVE WriteReindexPlanRes(_, _, _, _)
WriteReindexPlanRes(T, R, key, addr) ==
    IF SearchIndex(key, T.index, T, 0) # None
    THEN [tables |-> T, reindex |-> R, outcome |-> "Skipped", triggers |-> 0]
    ELSE LET r == IndexInsert(T.index, key, addr, NoSub)
         IN  IF r.outcome = "NeedReindex"
             THEN LET tr  == TriggerReindex(T, R)
                      rec == WriteReindexPlanRes(tr.tables, tr.reindex, key, addr)
                  IN  [rec EXCEPT !.outcome = "NeedReindex", !.triggers = @ + 1]
             ELSE [tables  |-> [T EXCEPT !.index = r.table],
                   reindex |-> R, outcome |-> "Written", triggers |-> 0]

\* the (key prefix, address) pairs of chunk c of `source`, in probe order
RECURSIVE ChunkPairs(_, _, _)
ChunkPairs(source, c, es) ==
    IF es = <<>> THEN <<>>
    ELSE <<[key  |-> RecoverKeyPrefix(source.bits, c, Head(es)),
            addr |-> Address(Head(es).off, Head(es).tier)]>>
         \o ChunkPairs(source, c, Tail(es))

\* the while loop of Column::reindex
RECURSIVE ReindexWalk(_, _, _)
ReindexWalk(source, source_index, plan) ==
    IF source_index < TotalChunks(source.bits) /\ Len(plan) < MAX_REBALANCE_BATCH
    THEN ReindexWalk(source, source_index + 1,
                     plan \o ChunkPairs(source, source_index,
                                        NonEmpty(source.chunks[source_index])))
    ELSE [source_index |-> source_index, plan |-> plan]

\* reindex, had it stored the cursor one past the chunk it stopped at
ReindexRes_StorePastEnd(R, progress) ==
    IF R.queue # <<>> /\ progress # TotalChunks(Head(R.queue).bits)
    THEN LET w == ReindexWalk(Head(R.queue), progress, <<>>)
         IN  [progress |-> w.source_index + 1,
              drop |-> IF w.source_index = TotalChunks(Head(R.queue).bits)
                       THEN Head(R.queue).bits ELSE -1,
              plan |-> w.plan]
    ELSE [progress |-> R.progress, drop |-> -1, plan |-> <<>>]

\* reindex, had it not compared the progress with total_chunks before the walk
ReindexRes_SignalAgain(R, progress) ==
    IF R.queue # <<>>
    THEN LET w == ReindexWalk(R.queue[1], progress, <<>>)
         IN  [progress |-> w.source_index,
              drop |-> IF w.source_index = TotalChunks(R.queue[1].bits)
                       THEN R.queue[1].bits ELSE -1,
              plan |-> w.plan]
    ELSE [progress |-> R.progress, drop |-> -1, plan |-> <<>>]

\* Column::reindex, for the value `progress` it loaded: the progress it stores,
\* the drop signal (-1: none) and the batch
ReindexRes(R, progress) ==
    IF R.queue # <<>> /\ progress # TotalChunks(Head(R.queue).bits)
    THEN LET w == ReindexWalk(Head(R.queue), progress, <<>>)
         IN  [progress |-> w.source_index,
              drop |-> IF w.source_index = TotalChunks(Head(R.queue).bits)
                       THEN Head(R.queue).bits ELSE -1,
              plan |-> w.plan]
    ELSE [progress |-> R.progress, drop |-> -1, plan |-> <<>>]

\* drop_index, had it popped the front for the id of any queued index
DropIndexRes_AnyQueued(R, id) ==
    IF \E i \in 1..Len(R.queue) : R.queue[i].bits = id
    THEN [queue |-> Tail(R.queue), progress |-> 0]
    ELSE R

\* Column::drop_index(id)
DropIndexRes(R, id) ==
    IF R.queue # <<>> /\ Head(R.queue).bits = id
    THEN [queue |-> Tail(R.queue), progress |-> 0]
    ELSE R

\* IndexTable::enact_plan(record.index): the logged image of a chunk is written
EnactChunk(t, c, es) == [t EXCEPT !.chunks[c] = es]

\* enact_plan, had it treated a missing table as validate_plan does
EnactPlanRes_Trigger(T, R, record) ==
    IF T.index.bits = record.table
    THEN [tables  |-> [T EXCEPT !.index = EnactChunk(@, record.chunk, record.entries)],
          reindex |-> R, outcome |-> "Ok", triggers |-> 0]
    ELSE IF \E i \in 1..Len(R.queue) : R.queue[i].bits = record.table
    THEN LET i == CHOOSE j \in 1..Len(R.queue) : R.queue[j].bits = record.table
         IN  [tables  |-> T,
              reindex |-> [R EXCEPT !.queue[i] =
                              EnactChunk(@, record.chunk, record.entries)],
              outcome |-> "Ok", triggers |-> 0]
    ELSE [tables  |-> TriggerReindex(T, R).tables,
          reindex |-> TriggerReindex(T, R).reindex,
          outcome |-> "Corruption", triggers |-> 1]

\* Column::enact_plan(InsertIndex(record)); record.table is given by its
\* index_bits, record.index by the chunk and its logged entries
EnactPlanRes(T, R, record) ==
    IF T.index.bits = record.table
    THEN [tables  |-> [T EXCEPT !.index = EnactChunk(@, record.chunk, record.entries)],
          reindex |-> R, outcome |-> "Ok", triggers |-> 0]
    ELSE IF \E i \in 1..Len(R.queue) : R.queue[i].bits = record.table
    THEN LET i == CHOOSE j \in 1..Len(R.queue) : R.queue[j].bits = record.table
         IN  [tables  |-> T,
              reindex |-> [R EXCEPT !.queue[i] =
                              EnactChunk(@, record.chunk, record.entries)],
              outcome |-> "Ok", triggers |-> 0]
    ELSE [tables |-> T, reindex |-> R, outcome |-> "Corruption", triggers |-> 0]

\* ValueTable::iter_while: the live slots of a table from offset `off` on
RECURSIVE LiveSlots(_, _)
LiveSlots(tbl, off) ==
    IF off > Len(tbl) THEN <<>>
    ELSE (IF tbl[off].rc > 0 THEN <<tbl[off]>> ELSE <<>>) \o LiveSlots(tbl, off + 1)

\* the IterState handed to the visitor for a key and its slot
Item(key, slot) ==
    [key |-> key, rc |-> slot.rc,
     value |-> IF slot.c THEN Decompress(slot.v) ELSE slot.v]

\* the key iter_while_inner computes for a slot of a preimage column: the hash
\* of the value, which is the key the value was written under
HashedKey(slot) == CHOOSE key \in Keys : key.s = slot.s

\* iter_while_inner on a preimage column: the items of the value tables from
\* tier `tier` (0-based) up to the blob tier, which is left out
RECURSIVE IterValueTables(_, _)
IterValueTables(T, tier) ==
    IF tier >= NumTiers - 1 THEN <<>>
    ELSE LET slots == LiveSlots(T.value[tier + 1], 1)
         IN  [i \in 1..Len(slots) |-> Item(HashedKey(slots[i]), slots[i])]
             \o IterValueTables(T, tier + 1)

\* the non-empty entries of `source` from chunk c on, each with its chunk
RECURSIVE EntriesFrom(_, _)
EntriesFrom(source, c) ==
    IF c >= TotalChunks(source.bits) THEN <<>>
    ELSE LET es == NonEmpty(source.chunks[c])
         IN  [i \in 1..Len(es) |-> [c |-> c, entry |-> es[i]]]
             \o EntriesFrom(source, c + 1)

\* the loop of iter_while_inner over the entries of tables.index, with the
\* visitor of iter_while, which stops at an entry whose value is missing
RECURSIVE IterIndex(_, _, _, _, _)
IterIndex(T, pre, pairs, i, items) ==
    IF i > Len(pairs) THEN [outcome |-> "Ok", items |-> items]
    ELSE LET c     == pairs[i].c
             entry == pairs[i].entry
             slot  == GetWithMeta(T.value[entry.tier + 1], entry.off)
         IN  IF pre /\ entry.tier # NumTiers - 1
             THEN IterIndex(T, pre, pairs, i + 1, items)
             ELSE IF slot = None
             THEN [outcome |-> "Corruption", items |-> items]
             ELSE IterIndex(T, pre, pairs, i + 1,
                            Append(items,
                                   Item([p |-> RecoverKeyPrefix(T.index.bits, c, entry).p,
                                         s |-> slot.s], slot)))

\* Column::iter_while with a visitor that always continues: what it returns
\* and the items the visitor saw
IterWhileRes(T, pre) ==
    IterIndex(T, pre, EntriesFrom(T.index, 0), 1,
              IF pre THEN IterValueTables(T, 0) ELSE <<>>)

\* the loop of Column::open_index over bits, descending; `files` are the index
\* tables found on disk
RECURSIVE OpenScan(_, _, _, _)
OpenScan(files, bits, top, reindexing) ==
    IF bits < START_BITS THEN [top |-> top, reindexing |-> reindexing]
    ELSE LET found == { f \in files : f.bits = bits }
         IN  IF found = {} THEN OpenScan(files, bits - 1, top, reindexing)
             ELSE LET table == CHOOSE f \in found : TRUE
                  IN  IF top = None
                      THEN OpenScan(files, bits - 1, table, reindexing)
                      ELSE OpenScan(files, bits - 1, top, <<table>> \o reindexing)

\* Column::open_index
OpenIndex(files) ==
    LET r == OpenScan(files, MaxBits, None, <<>>)
    IN  [index |-> IF r.top # None THEN r.top ELSE CreateNew(START_BITS),
         reindexing |-> r.reindexing]

Range(q) == { q[i] : i \in 1..Len(q) }

\* the record of a call: what was called, what it returned, whether it found what
\* it looked for, and the number of trigger_reindex calls it made
Called(op, outcome, found, triggers) ==
    [op |-> op, outcome |-> outcome, found |-> found, triggers |-> triggers]

(***************************************************************************)
(* The state after Column::open on an empty directory.                     *)
(***************************************************************************)
Init ==
    /\ tables = [index |-> OpenIndex({}).index,
                 value |-> [t \in 1..NumTiers |-> <<>>]]
    /\ reindex = [queue |-> OpenIndex({}).reindexing, progress |-> 0]
    /\ ref_counted \in BOOLEAN
    /\ preimage \in BOOLEAN
    /\ batch = <<>>
    /\ drop = -1
    /\ vp = -1
    /\ rx = [t \in Threads |-> -1]
    /\ shadow = [k \in Keys |-> NoValue]
    /\ refs = [k \in Keys |-> 0]
    /\ last = Called("open", "Ok", FALSE, 0)
    /\ calls = 0
    /\ run = [t \in Threads |-> Idle]

\* the index tables of the column
IndexTables == {tables.index} \cup Range(reindex.queue)

\* no thread holds the read locks of reindex: a write lock can be taken
NoReader == \A t \in Threads : rx[t] = -1

\* no get holds the read lock of tables: its write lock can be taken
NoGet == \A t \in Threads : IF run[t].op = "get" THEN run[t].pc # "queue" ELSE TRUE

\* thread t is outside any call
Free(t) == IF run[t].op \in {"get", "write_plan"} THEN run[t].pc = "done" ELSE TRUE

\* thread t holds the upgradable read locks of tables and reindex, or the write
\* locks they were upgraded to
HoldsUpgradable(t) ==
    IF run[t].op = "write_plan" THEN run[t].pc \in {"plan", "upgrade", "upgraded"}
    ELSE FALSE

\* thread t holds the write lock of tables
HoldsTablesWrite(t) ==
    IF run[t].op = "write_plan" THEN run[t].pc = "upgraded" ELSE FALSE

\* thread t holds the read lock of tables
HoldsTablesRead(t) ==
    IF run[t].op = "get" THEN run[t].pc = "queue" ELSE rx[t] # -1

\* upgradable_read, had it been shared among writers as read is
CanLockUpgradable_Shared(t) == \A u \in Threads \ {t} : ~HoldsTablesWrite(u)

\* RwLock::upgradable_read can be taken by thread t: no other thread holds it
CanLockUpgradable(t) == \A u \in Threads \ {t} : ~HoldsUpgradable(u)

\* RwLock::read of tables can be taken by thread t
CanLockRead(t) == \A u \in Threads \ {t} : ~HoldsTablesWrite(u)

\* one more call, within the budget
Tick == calls < MaxCalls /\ calls' = calls + 1

\* what the caller expects key to hold after write_plan(key, Some(value))
ShadowInsert(key, value) ==
    IF ref_counted THEN (IF refs[key] = 0 THEN value ELSE shadow[key])
    ELSE IF preimage /\ shadow[key] # NoValue THEN shadow[key]
    ELSE value

\* write_plan(key, value); value = NoValue is a delete
WritePlan(key, value) ==
    LET res == WritePlanRes(tables, reindex, key, value, ref_counted, preimage)
    IN  /\ Tick
        /\ vp = -1
        /\ res.tables.index.bits <= MaxBits
        /\ res.triggers > 0 => NoReader /\ NoGet
        /\ (ref_counted /\ value # NoValue) => refs[key] < MaxRefs
        /\ tables' = res.tables
        /\ reindex' = res.reindex
        /\ shadow' = [shadow EXCEPT ![key] =
                        IF value # NoValue THEN ShadowInsert(key, value)
                        ELSE IF ref_counted /\ refs[key] > 1 THEN @
                        ELSE NoValue]
        /\ refs' = [refs EXCEPT ![key] =
                        IF ~ref_counted THEN 0
                        ELSE IF value # NoValue THEN @ + 1
                        ELSE IF @ > 0 THEN @ - 1 ELSE 0]
        /\ last' = Called("write_plan", res.outcome,
                          SearchAllIndexes(key, tables, reindex) # None, res.triggers)
        /\ UNCHANGED <<ref_counted, preimage, batch, drop, vp, rx, run>>

\* reindex(): one call of the drain worker, which has fed its previous batch
Reindex ==
    LET res == ReindexRes(reindex, reindex.progress)
    IN  /\ Tick
        /\ vp = -1
        /\ NoReader
        /\ batch = <<>>
        /\ reindex' = [reindex EXCEPT !.progress = res.progress]
        /\ batch' = res.plan
        /\ drop' = IF res.drop # -1 THEN res.drop ELSE drop
        /\ last' = Called("reindex", "Ok",
                          res.drop # -1, 0)
        /\ UNCHANGED <<tables, ref_counted, preimage, vp, rx, shadow, refs, run>>

\* write_reindex_plan(key, address) for the next pair of the batch
WriteReindexPlan ==
    /\ Tick
    /\ vp = -1
    /\ batch # <<>>
    /\ LET res == WriteReindexPlanRes(tables, reindex, Head(batch).key, Head(batch).addr)
       IN  /\ res.tables.index.bits <= MaxBits
           /\ res.triggers > 0 => NoReader /\ NoGet
           /\ tables' = res.tables
           /\ reindex' = res.reindex
           /\ last' = Called("write_reindex_plan", res.outcome,
                             SearchIndex(Head(batch).key, tables.index, tables, 0) # None,
                             res.triggers)
    /\ batch' = Tail(batch)
    /\ UNCHANGED <<ref_counted, preimage, drop, vp, rx, shadow, refs, run>>

\* drop_index(id) with the id reindex signalled, once the batch has been fed
DropIndex ==
    /\ Tick
    /\ vp = -1
    /\ NoReader
    /\ drop # -1
    /\ batch = <<>>
    /\ reindex' = DropIndexRes(reindex, drop)
    /\ drop' = -1
    /\ last' = Called("drop_index", "Ok",
                      reindex.queue # <<>> /\ Head(reindex.queue).bits = drop, 0)
    /\ UNCHANGED <<tables, ref_counted, preimage, batch, vp, rx, shadow, refs, run>>

\* Column::open on the files the column left: the drain worker starts afresh
Open ==
    LET o == OpenIndex({tables.index} \cup Range(reindex.queue))
    IN  /\ Tick
        /\ vp = -1
        /\ NoReader
        /\ tables' = [tables EXCEPT !.index = o.index]
        /\ reindex' = [queue |-> o.reindexing, progress |-> 0]
        /\ batch' = <<>>
        /\ drop' = -1
        /\ last' = Called("open", "Ok", FALSE, 0)
        /\ UNCHANGED <<ref_counted, preimage, vp, rx, shadow, refs, run>>

\* one level of validate_plan(InsertIndex(record)), record.table of index_bits b:
\* validated against the table when the column has it, else a trigger and a retry
ValidateLevel(b) ==
    IF tables.index.bits = b \/ \E i \in 1..Len(reindex.queue) : reindex.queue[i].bits = b
    THEN /\ vp' = -1
         /\ last' = Called("validate_plan", "Ok", TRUE, 0)
         /\ UNCHANGED <<tables, reindex>>
    ELSE /\ tables.index.bits < MaxBits
         /\ NoReader
         /\ NoGet
         /\ tables' = TriggerReindex(tables, reindex).tables
         /\ reindex' = TriggerReindex(tables, reindex).reindex
         /\ vp' = b
         /\ last' = Called("validate_plan", "Retry", FALSE, 1)

\* validate_plan(InsertIndex(record)) is called
ValidatePlan(b) ==
    /\ Tick
    /\ vp = -1
    /\ ValidateLevel(b)
    /\ UNCHANGED <<ref_counted, preimage, batch, drop, rx, shadow, refs, run>>

\* the recursive call of validate_plan after a trigger
ValidateRetry ==
    /\ Tick
    /\ vp # -1
    /\ ValidateLevel(vp)
    /\ UNCHANGED <<ref_counted, preimage, batch, drop, rx, shadow, refs, run>>

Next ==
    \/ \E key \in SomeKeys, value \in SomeValues \cup {NoValue} : WritePlan(key, value)
    \/ Reindex
    \/ WriteReindexPlan
    \/ DropIndex
    \/ Open
    \/ \E b \in START_BITS..MaxBits : ValidatePlan(b)
    \/ ValidateRetry

Spec == Init /\ [][Next]_vars

(***************************************************************************)
(* Inserts only: the column is written by write_plan(key, Some(value)).    *)
(***************************************************************************)
NextIns ==
    \E key \in SomeKeys, value \in SomeValues : WritePlan(key, value)

SpecIns == Init /\ [][NextIns]_vars

(***************************************************************************)
(* Two threads call reindex.  A call holds the read locks of tables and    *)
(* reindex from its load of the progress cursor to its store; the writer   *)
(* runs beside it as long as it needs no write lock.                       *)
(***************************************************************************)
\* reindex() by thread t, up to the load of reindex.progress
ReindexLoad(t) ==
    /\ Tick
    /\ vp = -1
    /\ rx[t] = -1
    /\ rx' = [rx EXCEPT ![t] = reindex.progress]
    /\ UNCHANGED <<tables, reindex, ref_counted, preimage, batch, drop, vp, shadow,
                   refs, last, run>>

\* reindex() by thread t, from the walk to the return
ReindexStore(t) ==
    LET res == ReindexRes(reindex, rx[t])
    IN  /\ rx[t] # -1
        /\ reindex' = [reindex EXCEPT !.progress = res.progress]
        /\ batch' = batch \o res.plan
        /\ drop' = IF res.drop # -1 THEN res.drop ELSE drop
        /\ rx' = [rx EXCEPT ![t] = -1]
        /\ last' = Called("reindex", "Ok", res.drop # -1, 0)
        /\ UNCHANGED <<tables, ref_counted, preimage, vp, shadow, refs, calls, run>>

NextConc ==
    \/ \E key \in SomeKeys, value \in {<<1, 2, 1>>, NoValue} : WritePlan(key, value)
    \/ \E t \in Threads : ReindexLoad(t)
    \/ \E t \in Threads : ReindexStore(t)
    \/ WriteReindexPlan
    \/ DropIndex
    \/ \E b \in START_BITS..MaxBits : ValidatePlan(b)
    \/ ValidateRetry

SpecConc == Init /\ [][NextConc]_vars

(***************************************************************************)
(* The drain of the queue, from the state a column is in after three       *)
(* inserts into one chunk (the third triggers a reindex), one reindex call *)
(* and write_reindex_plan of the first pair of its batch.                  *)
(***************************************************************************)
InitDrain ==
    \E a \in {WritePlanRes([index |-> OpenIndex({}).index,
                             value |-> [t \in 1..NumTiers |-> <<>>]],
                            [queue |-> OpenIndex({}).reindexing, progress |-> 0],
                            [p |-> 0, s |-> 1], <<1, 2, 1>>, FALSE, FALSE)} :
    \E b \in {WritePlanRes(a.tables, a.reindex,
                            [p |-> 0, s |-> 2], <<1, 2, 1>>, FALSE, FALSE)} :
    \E w \in {WritePlanRes(b.tables, b.reindex,
                            [p |-> 1, s |-> 3], <<1, 2, 1>>, FALSE, FALSE)} :
    \E r \in {ReindexRes(w.reindex, w.reindex.progress)} :
    \E f \in {WriteReindexPlanRes(w.tables,
                                   [w.reindex EXCEPT !.progress = r.progress],
                                   Head(r.plan).key, Head(r.plan).addr)} :
        /\ tables = f.tables
        /\ reindex = f.reindex
        /\ ref_counted = FALSE
        /\ preimage = FALSE
        /\ batch = Tail(r.plan)
        /\ drop = r.drop
        /\ vp = -1
        /\ rx = [t \in Threads |-> -1]
        /\ shadow = [k \in Keys |-> IF k \in SomeKeys THEN <<1, 2, 1>> ELSE NoValue]
        /\ refs = [k \in Keys |-> 0]
        /\ last = Called("write_reindex_plan", f.outcome, FALSE, f.triggers)
        /\ calls = 0
        /\ run = [t \in Threads |-> Idle]

NextDrain ==
    \/ \E key \in SomeKeys, value \in SomeValues \cup {NoValue} : WritePlan(key, value)
    \/ Reindex
    \/ WriteReindexPlan
    \/ DropIndex

SpecDrain == InitDrain /\ [][NextDrain]_vars

(***************************************************************************)
(* drop_index is called with any id, not only with one reindex signalled.  *)
(***************************************************************************)
\* drop_index(id)
DropIndexId(id) ==
    /\ Tick
    /\ vp = -1
    /\ NoReader
    /\ reindex' = DropIndexRes(reindex, id)
    /\ last' = Called("drop_index", "Ok",
                      reindex.queue # <<>> /\ Head(reindex.queue).bits = id, 0)
    /\ UNCHANGED <<tables, ref_counted, preimage, batch, drop, vp, rx, shadow, refs, run>>

NextDrop ==
    \/ \E key \in SomeKeys, value \in {<<1, 2, 1>>, NoValue} : WritePlan(key, value)
    \/ Reindex
    \/ WriteReindexPlan
    \/ \E id \in START_BITS..MaxBits : DropIndexId(id)
    \/ \E b \in START_BITS..MaxBits : ValidatePlan(b)
    \/ ValidateRetry

SpecDrop == Init /\ [][NextDrop]_vars

(***************************************************************************)
(* Two threads drain the queue, from the state a column is in after two    *)
(* inserts into one chunk and validate_plan(InsertIndex(record)) of a      *)
(* record for the next index_bits, which triggers a reindex.  Each thread  *)
(* calls reindex and feeds what it returns; drop_index is called with the  *)
(* id reindex signalled once all the pairs have been fed.                  *)
(***************************************************************************)
InitRace ==
    \E a \in {WritePlanRes([index |-> OpenIndex({}).index,
                             value |-> [t \in 1..NumTiers |-> <<>>]],
                            [queue |-> OpenIndex({}).reindexing, progress |-> 0],
                            [p |-> 0, s |-> 1], <<1, 2, 1>>, FALSE, FALSE)} :
    \E b \in {WritePlanRes(a.tables, a.reindex,
                            [p |-> 0, s |-> 2], <<1, 2, 1>>, FALSE, FALSE)} :
    \E tr \in {TriggerReindex(b.tables, b.reindex)} :
        /\ tables = tr.tables
        /\ reindex = tr.reindex
        /\ ref_counted = FALSE
        /\ preimage = FALSE
        /\ batch = <<>>
        /\ drop = -1
        /\ vp = -1
        /\ rx = [t \in Threads |-> -1]
        /\ shadow = [k \in Keys |-> IF k.s <= 2 THEN <<1, 2, 1>> ELSE NoValue]
        /\ refs = [k \in Keys |-> 0]
        /\ last = Called("validate_plan", "Ok", TRUE, 0)
        /\ calls = 0
        /\ run = [t \in Threads |-> Idle]

\* write_reindex_plan(key, address) for the next pair of the batches returned
FeedPair ==
    /\ batch # <<>>
    /\ LET res == WriteReindexPlanRes(tables, reindex, Head(batch).key, Head(batch).addr)
       IN  /\ res.tables.index.bits <= MaxBits
           /\ res.triggers > 0 => NoReader /\ NoGet
           /\ tables' = res.tables
           /\ reindex' = res.reindex
           /\ last' = Called("write_reindex_plan", res.outcome,
                             SearchIndex(Head(batch).key, tables.index, tables, 0) # None,
                             res.triggers)
    /\ batch' = Tail(batch)
    /\ UNCHANGED <<ref_counted, preimage, drop, vp, rx, shadow, refs, calls, run>>

NextRace ==
    \/ \E t \in Threads : ReindexLoad(t)
    \/ \E t \in Threads : ReindexStore(t)
    \/ FeedPair
    \/ DropIndex

SpecRace == InitRace /\ [][NextRace]_vars

(***************************************************************************)
(* Log replay: enact_plan(InsertIndex(record)) is called for records of    *)
(* any index table, present or not.                                        *)
(***************************************************************************)
\* the InsertIndex records replayed: a chunk of the table of `b` bits, logged
\* empty or with one entry
Records ==
    { [table |-> b, chunk |-> c, entries |-> es] :
        b \in START_BITS..MaxBits, c \in {0, 1},
        es \in { [i \in 1..CHUNK_ENTRIES |-> EmptyEntry],
                 [i \in 1..CHUNK_ENTRIES |->
                    IF i = 1 THEN [pk |-> 0, tier |-> 1, off |-> 1] ELSE EmptyEntry] } }

\* enact_plan(InsertIndex(record))
EnactPlan(record) ==
    LET res == EnactPlanRes(tables, reindex, record)
    IN  /\ Tick
        /\ vp = -1
        /\ res.tables.index.bits <= MaxBits
        /\ tables' = res.tables
        /\ reindex' = res.reindex
        /\ last' = Called("enact_plan", res.outcome,
                          \E t \in IndexTables : t.bits = record.table, res.triggers)
        /\ UNCHANGED <<ref_counted, preimage, batch, drop, vp, rx, shadow, refs, run>>

NextEnact ==
    \/ \E key \in SomeKeys : WritePlan(key, <<1, 2, 1>>)
    \/ Reindex
    \/ DropIndex
    \/ \E b \in START_BITS..MaxBits : ValidatePlan(b)
    \/ ValidateRetry
    \/ \E record \in Records : EnactPlan(record)

SpecEnact == Init /\ [][NextEnact]_vars

(***************************************************************************)
(* Tier selection: compress_internal is applied to a value, a compression  *)
(* threshold and a list of tier sizes drawn at the start; when these are   *)
(* the threshold and sizes of the column of this model, the value is then  *)
(* inserted under keys the column does not hold.                           *)
(***************************************************************************)
MaxValueLen == 4

MaxTierCount == 3

MaxValueSize == 3

\* the sequences over S of length n
RECURSIVE SeqsOfLen(_, _)
SeqsOfLen(S, n) ==
    IF n = 0 THEN {<<>>}
    ELSE { <<x>> \o q : x \in S, q \in SeqsOfLen(S, n - 1) }

DrawnValues == UNION { SeqsOfLen({1, 2}, n) : n \in 0..MaxValueLen }

DrawnSizes == UNION { SeqsOfLen(1..MaxValueSize, n) : n \in 1..MaxTierCount }

InitTier ==
    /\ tables = [index |-> OpenIndex({}).index,
                 value |-> [t \in 1..NumTiers |-> <<>>]]
    /\ reindex = [queue |-> OpenIndex({}).reindexing, progress |-> 0]
    /\ ref_counted = FALSE
    /\ preimage = FALSE
    /\ batch = <<>>
    /\ drop = -1
    /\ vp = -1
    /\ rx = [t \in Threads |-> -1]
    /\ shadow = [k \in Keys |-> NoValue]
    /\ refs = [k \in Keys |-> 0]
    /\ last = Called("open", "Ok", FALSE, 0)
    /\ calls = 0
    /\ \E treshold \in 0..MaxValueLen, value \in DrawnValues, value_sizes \in DrawnSizes :
          run = [t \in Threads |->
                    IF t = 1
                    THEN [op |-> "compress_internal", treshold |-> treshold,
                          value |-> value, value_sizes |-> value_sizes, ret |-> None]
                    ELSE Idle]

\* compress_internal(compression, key, value, tables) returns
CompressCall ==
    /\ run[1].ret = None
    /\ run' = [run EXCEPT ![1].ret =
                  CompressInternalIn(run[1].treshold, run[1].value, run[1].value_sizes)]
    /\ UNCHANGED <<tables, reindex, ref_counted, preimage, batch, drop, vp, rx,
                   shadow, refs, last, calls>>

\* write_plan(key, Some(value)) of the drawn value under a key the column does
\* not hold
InsertDrawn(key) ==
    /\ run[1].ret # None
    /\ run[1].treshold = CompressionTreshold
    /\ run[1].value_sizes = ValueSizes
    /\ run[1].value # NoValue
    /\ shadow[key] = NoValue
    /\ WritePlan(key, run[1].value)

NextTier ==
    \/ CompressCall
    \/ \E key \in NearKeys : InsertDrawn(key)

SpecTier == InitTier /\ [][NextTier]_vars

(***************************************************************************)
(* Iteration: iter_while is called between the calls of the writer and of  *)
(* the drain worker.                                                       *)
(***************************************************************************)
\* iter_while(log, f), f returning true for every item
IterWhile ==
    \E res \in {IterWhileRes(tables, preimage)} :
        /\ Tick
        /\ vp = -1
        /\ run' = [run EXCEPT ![1] = [op |-> "iter_while", ret |-> res]]
        /\ last' = Called("iter_while", res.outcome, FALSE, 0)
        /\ UNCHANGED <<tables, reindex, ref_counted, preimage, batch, drop, vp, rx,
                       shadow, refs>>

NextIter ==
    \/ \E key \in SomeKeys, value \in {<<1, 2, 1>>, NoValue} : WritePlan(key, value)
    \/ Reindex
    \/ WriteReindexPlan
    \/ IterWhile

SpecIter == Init /\ [][NextIter]_vars

(***************************************************************************)
(* A drain of an index with entries in more than one chunk: one key in the *)
(* first chunk, the others in the second.                                  *)
(***************************************************************************)
NextBatch ==
    \/ \E key \in {[p |-> 0, s |-> 1]} \cup FarKeys : WritePlan(key, <<1, 2, 1>>)
    \/ Reindex
    \/ WriteReindexPlan

SpecBatch == Init /\ [][NextBatch]_vars

(***************************************************************************)
(* Readers beside the drain: threads call get while the drain worker calls *)
(* reindex, write_reindex_plan and drop_index, from the state of InitRace. *)
(* No key is written or deleted.  get holds the read lock of tables from   *)
(* its probe of the current index on, and takes the read lock of reindex   *)
(* only for its loop over the queue.                                       *)
(***************************************************************************)
\* get(key) by thread t, up to the probe of the current index
GetProbe(t, key) ==
    \E r \in {GetInIndex(key, tables.index, tables)} :
        /\ Free(t)
        /\ CanLockRead(t)
        /\ run' = [run EXCEPT ![t] =
                      IF r # None
                      THEN [op |-> "get", key |-> key, pc |-> "done", ret |-> r.value]
                      ELSE [op |-> "get", key |-> key, pc |-> "queue", ret |-> NoValue]]
        /\ UNCHANGED <<tables, reindex, ref_counted, preimage, batch, drop, vp, rx,
                       shadow, refs, last, calls>>

\* get(key) by thread t, from self.reindex.read() to the return
GetQueue(t) ==
    /\ run[t].op = "get"
    /\ run[t].pc = "queue"
    /\ \E r \in {GetInQueue(run[t].key, tables, reindex.queue, 1)} :
          run' = [run EXCEPT ![t].pc = "done",
                             ![t].ret = IF r # None THEN r.value ELSE NoValue]
    /\ UNCHANGED <<tables, reindex, ref_counted, preimage, batch, drop, vp, rx,
                   shadow, refs, last, calls>>

NextGet ==
    \/ \E t \in Threads, key \in {[p |-> 0, s |-> 1], [p |-> 0, s |-> 2]} : GetProbe(t, key)
    \/ \E t \in Threads : GetQueue(t)
    \/ Reindex
    \/ WriteReindexPlan
    \/ DropIndex

SpecGet == InitRace /\ [][NextGet]_vars

(***************************************************************************)
(* Writers and readers under the locks of the column.  write_plan takes    *)
(* the upgradable read locks of tables and reindex, plans, and on          *)
(* NeedReindex upgrades them inside trigger_reindex (tables first), swaps  *)
(* the index, releases the locks and calls itself.                         *)
(***************************************************************************)
InitLock == Init /\ ~ref_counted /\ ~preimage

\* write_plan(key, Some(value)) by thread t: the upgradable read locks
WLock(t, key, value) ==
    /\ Tick
    /\ Free(t)
    /\ CanLockUpgradable(t)
    /\ run' = [run EXCEPT ![t] = [op |-> "write_plan", key |-> key, value |-> value,
                                  pc |-> "plan", triggers |-> 0]]
    /\ UNCHANGED <<tables, reindex, ref_counted, preimage, batch, drop, vp, rx,
                   shadow, refs, last>>

\* write_plan by thread t: the search and the plan, up to the return or to
\* the call of trigger_reindex
WPlan(t) ==
    /\ run[t].op = "write_plan"
    /\ run[t].pc = "plan"
    /\ \E res \in {WritePlanLevel(tables, reindex, run[t].key, run[t].value,
                                  ref_counted, preimage)} :
          /\ tables' = res.tables
          /\ reindex' = res.reindex
          /\ IF res.upgrade
             THEN /\ tables.index.bits < MaxBits
                  /\ run' = [run EXCEPT ![t].pc = "upgrade"]
                  /\ UNCHANGED <<shadow, last>>
             ELSE /\ run' = [run EXCEPT ![t].pc = "done"]
                  /\ shadow' = [shadow EXCEPT ![run[t].key] = run[t].value]
                  /\ last' = Called("write_plan",
                                    IF run[t].triggers > 0 THEN "NeedReindex"
                                    ELSE res.outcome,
                                    SearchAllIndexes(run[t].key, tables, reindex) # None,
                                    run[t].triggers)
    /\ UNCHANGED <<ref_counted, preimage, batch, drop, vp, rx, refs, calls>>

\* trigger_reindex by thread t: the upgrade of the lock of tables, once no
\* other thread reads tables
WUpgrade(t) ==
    /\ run[t].op = "write_plan"
    /\ run[t].pc = "upgrade"
    /\ \A u \in Threads \ {t} : ~HoldsTablesRead(u)
    /\ run' = [run EXCEPT ![t].pc = "upgraded"]
    /\ UNCHANGED <<tables, reindex, ref_counted, preimage, batch, drop, vp, rx,
                   shadow, refs, last, calls>>

\* trigger_reindex by thread t: the upgrade of the lock of reindex, the swap
\* of the index and the release of both locks
WSwap(t) ==
    /\ run[t].op = "write_plan"
    /\ run[t].pc = "upgraded"
    /\ NoReader
    /\ tables' = TriggerReindex(tables, reindex).tables
    /\ reindex' = TriggerReindex(tables, reindex).reindex
    /\ run' = [run EXCEPT ![t].pc = "retry", ![t].triggers = @ + 1]
    /\ UNCHANGED <<ref_counted, preimage, batch, drop, vp, rx, shadow, refs, last,
                   calls>>

\* the call of write_plan by itself after trigger_reindex: the upgradable
\* read locks again
WRetry(t) ==
    /\ run[t].op = "write_plan"
    /\ run[t].pc = "retry"
    /\ CanLockUpgradable(t)
    /\ run' = [run EXCEPT ![t].pc = "plan"]
    /\ UNCHANGED <<tables, reindex, ref_counted, preimage, batch, drop, vp, rx,
                   shadow, refs, last, calls>>

NextLock ==
    \/ \E t \in Threads, key \in SomeKeys : WLock(t, key, <<1, 2, 1>>)
    \/ \E t \in Threads : WPlan(t)
    \/ \E t \in Threads : WUpgrade(t)
    \/ \E t \in Threads : WSwap(t)
    \/ \E t \in Threads : WRetry(t)
    \/ \E t \in Threads : GetProbe(t, [p |-> 0, s |-> 1])
    \/ \E t \in Threads : GetQueue(t)

SpecLock == InitLock /\ [][NextLock]_vars

(***************************************************************************)
(* The feed of the drain beside a writer that replaces keys left in the    *)
(* queued index: the pairs reindex returns are passed to                   *)
(* write_reindex_plan one by one.                                          *)
(***************************************************************************)
NextFeed ==
    \/ \E key \in {ZeroKey, [p |-> 0, s |-> 1], [p |-> 0, s |-> 2]},
          value \in SomeValues : WritePlan(key, value)
    \/ Reindex
    \/ FeedPair

SpecFeed == InitLock /\ [][NextFeed]_vars

(***************************************************************************)
(* One drain worker: it calls reindex, feeds every pair of the batch to    *)
(* write_reindex_plan, and passes the drop signal to drop_index, while the *)
(* writer inserts and deletes.  The column starts with three keys          *)
(* inserted, of which the second and third vary.  The worker keeps, for    *)
(* the front of the queue, what each of its reindex calls read and         *)
(* returned.                                                               *)
(***************************************************************************)
InitSeq ==
    \E y \in {[p |-> 0, s |-> 2], [p |-> 4, s |-> 5]} :
    \E z \in {[p |-> 1, s |-> 3], [p |-> 5, s |-> 6]} :
    \E a \in {WritePlanRes([index |-> OpenIndex({}).index,
                             value |-> [t \in 1..NumTiers |-> <<>>]],
                            [queue |-> OpenIndex({}).reindexing, progress |-> 0],
                            [p |-> 0, s |-> 1], <<1, 2, 1>>, FALSE, FALSE)} :
    \E b \in {WritePlanRes(a.tables, a.reindex, y, <<1, 2, 1>>, FALSE, FALSE)} :
    \E c \in {WritePlanRes(b.tables, b.reindex, z, <<1, 2, 1>>, FALSE, FALSE)} :
        /\ tables = c.tables
        /\ reindex = c.reindex
        /\ ref_counted = FALSE
        /\ preimage = FALSE
        /\ batch = <<>>
        /\ drop = -1
        /\ vp = -1
        /\ rx = [t \in Threads |-> -1]
        /\ shadow = [k \in Keys |->
                        IF k \in {[p |-> 0, s |-> 1], y, z} THEN <<1, 2, 1>>
                        ELSE NoValue]
        /\ refs = [k \in Keys |-> 0]
        /\ last = Called("write_plan", c.outcome, FALSE, c.triggers)
        /\ calls = 0
        /\ run = [t \in Threads |-> Idle]

\* the reindex calls the worker has made on the queue front of id `front`
CallsOn(front) ==
    IF run[1].op = "reindex"
    THEN (IF run[1].front = front THEN run[1].calls ELSE <<>>)
    ELSE <<>>

\* reindex(), called by the drain worker once it has fed its previous batch
ReindexSeq ==
    \E res \in {ReindexRes(reindex, reindex.progress)} :
    \E front \in {IF reindex.queue = <<>> THEN -1 ELSE reindex.queue[1].bits} :
        /\ Tick
        /\ vp = -1
        /\ NoReader
        /\ batch = <<>>
        /\ reindex' = [reindex EXCEPT !.progress = res.progress]
        /\ batch' = res.plan
        /\ drop' = IF res.drop # -1 THEN res.drop ELSE drop
        /\ last' = Called("reindex", "Ok", res.drop # -1, 0)
        /\ run' = [run EXCEPT ![1] =
                     [op |-> "reindex", front |-> front,
                      calls |-> Append(CallsOn(front),
                                       [from |-> reindex.progress,
                                        to   |-> res.progress,
                                        drop |-> res.drop,
                                        plan |-> Len(res.plan)])]]
        /\ UNCHANGED <<tables, ref_counted, preimage, vp, rx, shadow, refs>>

NextSeq ==
    \/ \E key \in SomeKeys, value \in {<<1, 2, 1>>, NoValue} : WritePlan(key, value)
    \/ ReindexSeq
    \/ FeedPair
    \/ DropIndex

SpecSeq == InitSeq /\ [][NextSeq]_vars

(***************************************************************************)
(* The locks of the column, one acquisition at a time.  Three threads call *)
(* get, write_plan, write_reindex_plan, validate_plan, enact_plan, reindex *)
(* and drop_index, from the state of InitRace.  The record of a thread in  *)
(* a call holds, for each of the two RwLocks, the mode it holds: "read",   *)
(* "upgradable", "claim" (the writer bit, taken by write() and by          *)
(* upgrade(), with readers still to leave) or "write".  read waits while   *)
(* the writer bit is set; upgradable_read and write wait for that and for  *)
(* an upgradable holder; a claim becomes the write lock once the other     *)
(* readers have left.                                                      *)
(***************************************************************************)
LockThreads == {1, 2, 3}

NoLocks == [tables |-> "none", reindex |-> "none"]

\* the mode in which thread t holds lock l
Mode(t, l) == IF run[t].op = "idle" THEN "none" ELSE run[t].locks[l]

\* what the first lock call of an operation asks for
Kind(op) ==
    IF op \in {"get", "enact_plan", "reindex"} THEN "read"
    ELSE IF op = "drop_index" THEN "claim"
    ELSE "upgradable"

\* the locks of an operation, had enact_plan and reindex taken reindex first
LockOrder_ReindexFirst(op) ==
    IF op = "drop_index" THEN <<"reindex">>
    ELSE IF op \in {"enact_plan", "reindex"} THEN <<"reindex", "tables">>
    ELSE <<"tables", "reindex">>

\* the locks an operation takes, in the order it takes them
LockOrder(op) ==
    IF op = "drop_index" THEN <<"reindex">> ELSE <<"tables", "reindex">>

\* the order in which trigger_reindex upgrades its two guards
UpgradeOrder == <<"tables", "reindex">>

\* the lock thread t is about to take and the mode it asks for ("write": the
\* readers must have left), or None
Wants(t) ==
    IF run[t].op = "idle" THEN None
    ELSE IF run[t].pc = "lock1"
    THEN [lock |-> LockOrder(run[t].op)[1], mode |-> Kind(run[t].op)]
    ELSE IF run[t].pc = "lock2"
    THEN [lock |-> LockOrder(run[t].op)[2], mode |-> Kind(run[t].op)]
    ELSE IF run[t].pc = "drain"
    THEN [lock |-> LockOrder(run[t].op)[1], mode |-> "write"]
    ELSE IF run[t].pc = "upgrade1" THEN [lock |-> UpgradeOrder[1], mode |-> "write"]
    ELSE IF run[t].pc = "upgrade2" THEN [lock |-> UpgradeOrder[2], mode |-> "write"]
    ELSE None

\* the modes held by another thread that make a lock call wait
Excludes(mode) ==
    IF mode = "read" THEN {"claim", "write"}
    ELSE IF mode = "write" THEN {"read", "upgradable"}
    ELSE {"upgradable", "claim", "write"}

\* the threads whose locks make thread t wait
Blockers(t) ==
    IF Wants(t) = None THEN {}
    ELSE { u \in LockThreads \ {t} : Mode(u, Wants(t).lock) \in Excludes(Wants(t).mode) }

InitOrder ==
    \E a \in {WritePlanRes([index |-> OpenIndex({}).index,
                             value |-> [t \in 1..NumTiers |-> <<>>]],
                            [queue |-> OpenIndex({}).reindexing, progress |-> 0],
                            [p |-> 0, s |-> 1], <<1, 2, 1>>, FALSE, FALSE)} :
    \E b \in {WritePlanRes(a.tables, a.reindex,
                            [p |-> 0, s |-> 2], <<1, 2, 1>>, FALSE, FALSE)} :
    \E tr \in {TriggerReindex(b.tables, b.reindex)} :
        /\ tables = tr.tables
        /\ reindex = tr.reindex
        /\ ref_counted = FALSE
        /\ preimage = FALSE
        /\ batch = <<>>
        /\ drop = -1
        /\ vp = -1
        /\ rx = [t \in Threads |-> -1]
        /\ shadow = [k \in Keys |-> IF k.s <= 2 THEN <<1, 2, 1>> ELSE NoValue]
        /\ refs = [k \in Keys |-> 0]
        /\ last = Called("validate_plan", "Ok", TRUE, 0)
        /\ calls = 0
        /\ run = [t \in LockThreads |-> Idle]

\* thread t enters the operation op with argument arg
Call(t, op, arg) ==
    /\ Tick
    /\ run[t].op = "idle"
    /\ run' = [run EXCEPT ![t] = [op |-> op, arg |-> arg, pc |-> "lock1",
                                  locks |-> NoLocks, triggers |-> 0]]
    /\ UNCHANGED <<tables, reindex, ref_counted, preimage, batch, drop, vp, rx,
                   shadow, refs, last>>

\* thread t enters write_reindex_plan with the next pair of the batches returned
CallFeed(t) ==
    /\ Tick
    /\ run[t].op = "idle"
    /\ batch # <<>>
    /\ run' = [run EXCEPT ![t] = [op |-> "write_reindex_plan", arg |-> batch[1],
                                  pc |-> "lock1", locks |-> NoLocks, triggers |-> 0]]
    /\ batch' = Tail(batch)
    /\ UNCHANGED <<tables, reindex, ref_counted, preimage, drop, vp, rx, shadow,
                   refs, last>>

\* thread t enters drop_index with the id reindex signalled
CallDrop(t) ==
    /\ Tick
    /\ run[t].op = "idle"
    /\ drop # -1
    /\ run' = [run EXCEPT ![t] = [op |-> "drop_index", arg |-> drop, pc |-> "lock1",
                                  locks |-> NoLocks, triggers |-> 0]]
    /\ drop' = -1
    /\ UNCHANGED <<tables, reindex, ref_counted, preimage, batch, vp, rx, shadow,
                   refs, last>>

\* the first lock call of the operation of thread t returns
Lock1(t) ==
    /\ run[t].op # "idle"
    /\ run[t].pc = "lock1"
    /\ Blockers(t) = {}
    /\ run' = [run EXCEPT ![t].locks[Wants(t).lock] = Wants(t).mode,
                          ![t].pc = IF run[t].op = "get" THEN "probe"
                                    ELSE IF Len(LockOrder(run[t].op)) = 1 THEN "drain"
                                    ELSE "lock2"]
    /\ UNCHANGED <<tables, reindex, ref_counted, preimage, batch, drop, vp, rx,
                   shadow, refs, last, calls>>

\* get by thread t: the probe of the current index under the read lock of tables
Probe(t) ==
    /\ run[t].op = "get"
    /\ run[t].pc = "probe"
    /\ \E r \in {GetInIndex(run[t].arg, tables.index, tables)} :
          IF r # None
          THEN /\ run' = [run EXCEPT ![t] = Idle]
               /\ last' = Called("get", "Ok", TRUE, 0)
          ELSE /\ run' = [run EXCEPT ![t].pc = "lock2"]
               /\ last' = last
    /\ UNCHANGED <<tables, reindex, ref_counted, preimage, batch, drop, vp, rx,
                   shadow, refs, calls>>

\* the second lock call of the operation of thread t returns
Lock2(t) ==
    /\ run[t].op # "idle"
    /\ run[t].pc = "lock2"
    /\ Blockers(t) = {}
    /\ run' = [run EXCEPT ![t].locks[Wants(t).lock] = Wants(t).mode,
                          ![t].pc = "locked"]
    /\ UNCHANGED <<tables, reindex, ref_counted, preimage, batch, drop, vp, rx,
                   shadow, refs, last, calls>>

\* get by thread t: the loop over the queue, and the release of both locks
GetBody(t) ==
    /\ run[t].op = "get"
    /\ run[t].pc = "locked"
    /\ \E r \in {GetInQueue(run[t].arg, tables, reindex.queue, 1)} :
          last' = Called("get", "Ok", r # None, 0)
    /\ run' = [run EXCEPT ![t] = Idle]
    /\ UNCHANGED <<tables, reindex, ref_counted, preimage, batch, drop, vp, rx,
                   shadow, refs, calls>>

\* enact_plan by thread t under both read locks, and their release
EnactBody(t) ==
    /\ run[t].op = "enact_plan"
    /\ run[t].pc = "locked"
    /\ \E res \in {EnactPlanRes(tables, reindex, run[t].arg)} :
          /\ tables' = res.tables
          /\ reindex' = res.reindex
          /\ last' = Called("enact_plan", res.outcome, res.outcome = "Ok", 0)
    /\ run' = [run EXCEPT ![t] = Idle]
    /\ UNCHANGED <<ref_counted, preimage, batch, drop, vp, rx, shadow, refs, calls>>

\* reindex by thread t under both read locks, and their release
ReindexBody(t) ==
    /\ run[t].op = "reindex"
    /\ run[t].pc = "locked"
    /\ \E res \in {ReindexRes(reindex, reindex.progress)} :
          /\ reindex' = [reindex EXCEPT !.progress = res.progress]
          /\ batch' = batch \o res.plan
          /\ drop' = IF res.drop # -1 THEN res.drop ELSE drop
          /\ last' = Called("reindex", "Ok", res.drop # -1, 0)
    /\ run' = [run EXCEPT ![t] = Idle]
    /\ UNCHANGED <<tables, ref_counted, preimage, vp, rx, shadow, refs, calls>>

\* Column::write_reindex_plan up to its return or its call of trigger_reindex
WriteReindexPlanLevel(T, R, key, addr) ==
    IF SearchIndex(key, T.index, T, 0) # None
    THEN [tables |-> T, reindex |-> R, outcome |-> "Skipped", upgrade |-> FALSE]
    ELSE LET r == IndexInsert(T.index, key, addr, NoSub)
         IN  IF r.outcome = "NeedReindex"
             THEN [tables |-> T, reindex |-> R, outcome |-> "NeedReindex",
                   upgrade |-> TRUE]
             ELSE [tables |-> [T EXCEPT !.index = r.table], reindex |-> R,
                   outcome |-> "Written", upgrade |-> FALSE]

\* Column::validate_plan(InsertIndex(record)), record.table of index_bits b, up
\* to its return or its call of trigger_reindex
ValidatePlanLevel(T, R, b) ==
    IF T.index.bits = b \/ \E i \in 1..Len(R.queue) : R.queue[i].bits = b
    THEN [tables |-> T, reindex |-> R, outcome |-> "Ok", upgrade |-> FALSE]
    ELSE [tables |-> T, reindex |-> R, outcome |-> "Retry", upgrade |-> TRUE]

\* one level of the operation of thread t that holds the upgradable read locks
PlanLevel(t) ==
    IF run[t].op = "write_plan"
    THEN WritePlanLevel(tables, reindex, run[t].arg.key, run[t].arg.value,
                        ref_counted, preimage)
    ELSE IF run[t].op = "write_reindex_plan"
    THEN WriteReindexPlanLevel(tables, reindex, run[t].arg.key, run[t].arg.addr)
    ELSE ValidatePlanLevel(tables, reindex, run[t].arg)

\* write_plan, write_reindex_plan or validate_plan by thread t under both
\* upgradable read locks: the return and the release of the locks, or the call
\* of trigger_reindex, whose first upgrade takes the writer bit
PlanBody(t) ==
    /\ run[t].op \in {"write_plan", "write_reindex_plan", "validate_plan"}
    /\ run[t].pc = "locked"
    /\ \E res \in {PlanLevel(t)} :
          /\ tables' = res.tables
          /\ reindex' = res.reindex
          /\ IF res.upgrade
             THEN /\ tables.index.bits < MaxBits
                  /\ run' = [run EXCEPT ![t].locks[UpgradeOrder[1]] = "claim",
                                        ![t].pc = "upgrade1"]
                  /\ UNCHANGED <<shadow, last>>
             ELSE /\ run' = [run EXCEPT ![t] = Idle]
                  /\ shadow' = IF run[t].op = "write_plan"
                               THEN [shadow EXCEPT ![run[t].arg.key] = run[t].arg.value]
                               ELSE shadow
                  /\ last' = Called(run[t].op,
                                    IF run[t].triggers > 0 /\ run[t].op # "validate_plan"
                                    THEN "NeedReindex" ELSE res.outcome,
                                    FALSE, run[t].triggers)
    /\ UNCHANGED <<ref_counted, preimage, batch, drop, vp, rx, refs, calls>>

\* trigger_reindex by thread t: its first upgrade returns, its second takes the
\* writer bit
Upgrade1(t) ==
    /\ run[t].op # "idle"
    /\ run[t].pc = "upgrade1"
    /\ Blockers(t) = {}
    /\ run' = [run EXCEPT ![t].locks[UpgradeOrder[1]] = "write",
                          ![t].locks[UpgradeOrder[2]] = "claim",
                          ![t].pc = "upgrade2"]
    /\ UNCHANGED <<tables, reindex, ref_counted, preimage, batch, drop, vp, rx,
                   shadow, refs, last, calls>>

\* trigger_reindex by thread t: its second upgrade returns, the index is
\* swapped and both guards are dropped; the operation then calls itself
Upgrade2(t) ==
    /\ run[t].op # "idle"
    /\ run[t].pc = "upgrade2"
    /\ Blockers(t) = {}
    /\ tables' = TriggerReindex(tables, reindex).tables
    /\ reindex' = TriggerReindex(tables, reindex).reindex
    /\ run' = [run EXCEPT ![t].locks = NoLocks, ![t].pc = "lock1",
                          ![t].triggers = @ + 1]
    /\ UNCHANGED <<ref_counted, preimage, batch, drop, vp, rx, shadow, refs, last,
                   calls>>

\* drop_index by thread t: reindex.write() returns, the front is popped when
\* its id is the argument, and the lock is released
Drain(t) ==
    /\ run[t].op = "drop_index"
    /\ run[t].pc = "drain"
    /\ Blockers(t) = {}
    /\ reindex' = DropIndexRes(reindex, run[t].arg)
    /\ last' = Called("drop_index", "Ok",
                      reindex.queue # <<>> /\ reindex.queue[1].bits = run[t].arg, 0)
    /\ run' = [run EXCEPT ![t] = Idle]
    /\ UNCHANGED <<tables, ref_counted, preimage, batch, drop, vp, rx, shadow, refs,
                   calls>>

\* the calls the threads make
OrderCalls ==
    { [op |-> "get", arg |-> [p |-> 0, s |-> 1]],
      [op |-> "write_plan", arg |-> [key |-> [p |-> 1, s |-> 3], value |-> <<1, 2, 1>>]],
      [op |-> "validate_plan", arg |-> MaxBits],
      [op |-> "enact_plan",
       arg |-> [table |-> START_BITS, chunk |-> 0,
                entries |-> [i \in 1..CHUNK_ENTRIES |->
                               IF i = 1 THEN [pk |-> 0, tier |-> 1, off |-> 1]
                               ELSE EmptyEntry]]],
      [op |-> "reindex", arg |-> 0] }

NextOrder ==
    \/ \E t \in LockThreads, c \in OrderCalls : Call(t, c.op, c.arg)
    \/ \E t \in LockThreads : CallFeed(t)
    \/ \E t \in LockThreads : CallDrop(t)
    \/ \E t \in LockThreads : Lock1(t)
    \/ \E t \in LockThreads : Probe(t)
    \/ \E t \in LockThreads : Lock2(t)
    \/ \E t \in LockThreads : GetBody(t)
    \/ \E t \in LockThreads : EnactBody(t)
    \/ \E t \in LockThreads : ReindexBody(t)
    \/ \E t \in LockThreads : PlanBody(t)
    \/ \E t \in LockThreads : Upgrade1(t)
    \/ \E t \in LockThreads : Upgrade2(t)
    \/ \E t \in LockThreads : Drain(t)

SpecOrder == InitOrder /\ [][NextOrder]_vars

(***************************************************************************)
(* Properties.                                                             *)
(***************************************************************************)
\* the entries of an index table
EntriesOf(t) ==
    { t.chunks[c][i] : c \in 0..(TotalChunks(t.bits) - 1), i \in 1..CHUNK_ENTRIES }

\* the value-table slots that hold key
SlotsOf(key) ==
    { sl \in UNION { {<<tier, off>> : off \in 1..Len(tables.value[tier + 1])} :
                     tier \in 0..(NumTiers - 1) } :
        HasKeyAt(tables.value[sl[1] + 1], sl[2], key) }

\* get agrees with the writer's record of every key
GetMatchesShadow == \A key \in Keys : Get(key) = shadow[key]

\* C1: in a column that is neither ref_counted nor preimage, after any sequence
\* of write_plan(key, Some(value)) calls, get(key) returns the last value written
\* for every written key and empty for every key never written.
C1_RoundTrip ==
    (~ref_counted /\ ~preimage) => GetMatchesShadow

\* C2: every live key has its payload in at most one value-table slot, across
\* all tiers, also after an insert whose index insert returned NeedReindex and
\* was retried after trigger_reindex.
C2_OneSlotPerKey ==
    \A key \in Keys : Get(key) # NoValue => Cardinality(SlotsOf(key)) <= 1

\* C3: every non-empty entry of the current index and of every queued index
\* points to a value-table slot with ref_count >= 1.
C3_EntriesPointToLiveSlots ==
    \A t \in IndexTables : \A e \in EntriesOf(t) :
        ~IsEmpty(e) => IsLive(tables.value[e.tier + 1], e.off)

\* C4: once a reindex was triggered and the queue has been drained to empty
\* (every batch fed to write_reindex_plan, every signalled index dropped),
\* whatever writes and deletes the writer interleaved, get returns the last
\* written value of every key written and not deleted, and empty for every
\* deleted key.
C4_DrainPreservesMapping ==
    (/\ ~ref_counted /\ ~preimage
     /\ tables.index.bits > START_BITS
     /\ reindex.queue = <<>> /\ batch = <<>> /\ drop = -1)
        => GetMatchesShadow

\* a further delete of key, its reference count at zero, returns Skipped and
\* leaves the tables as they were
C5_DeleteAtZeroStep(key) ==
    (/\ ref_counted /\ refs[key] = 0
     /\ last'.op = "write_plan"
     /\ WritePlan(key, NoValue))
        => (last'.outcome = "Skipped" /\ tables' = tables)

C6_SecondWriteStep(key, value) ==
    (/\ preimage /\ ~ref_counted
     /\ last'.op = "write_plan"
     /\ SearchAllIndexes(key, tables, reindex) # None
     /\ WritePlan(key, value))
        => /\ last'.outcome = "Skipped"
           /\ tables' = tables
           /\ reindex' = reindex
           /\ GetIn(tables', reindex', key) = shadow[key]

\* C6: in a preimage column that is not ref_counted, write_plan(key, Some(v2))
\* for a key that resolves in any index returns Skipped, emits no value-table or
\* index record, and get(key) still returns the first value.
C6_PreimageImmutable ==
    [][\A key \in Keys, value \in Values : C6_SecondWriteStep(key, value)]_vars

\* a second write of a key has just returned Skipped; the key resolves through a
\* queued index
C6_Witness ==
    /\ preimage /\ ~ref_counted
    /\ last.op = "write_plan" /\ last.outcome = "Skipped" /\ last.found
    /\ \E key \in Keys : /\ shadow[key] # NoValue
                         /\ SearchIndex(key, tables.index, tables, 0) = None
                         /\ SearchAllIndexes(key, tables, reindex) # None

\* a delete of a key that no index resolves
C7_DeleteAbsentStep(key) ==
    (/\ last'.op = "write_plan"
     /\ SearchAllIndexes(key, tables, reindex) = None
     /\ WritePlan(key, NoValue))
        => /\ last'.outcome = "Skipped"
           /\ tables' = tables
           /\ reindex' = reindex

\* C7: write_plan(key, None) for a key found in no index returns Skipped and
\* leaves the tables (current index, value tables) and the reindex state
\* (queue, progress) unchanged.
C7_DeleteAbsentIsNoOp ==
    [][\A key \in Keys : C7_DeleteAbsentStep(key)]_vars

\* a delete that missed has just returned, with a reindex under way
C7_Witness ==
    /\ last.op = "write_plan" /\ last.outcome = "Skipped" /\ ~last.found
    /\ reindex.queue # <<>>
    /\ \E e \in EntriesOf(tables.index) : ~IsEmpty(e)

\* C8: every queued index has fewer index_bits than the current index, and the
\* queue is ordered by strictly increasing index_bits from front to back.
C8_QueueOrdered ==
    /\ \A i \in 1..Len(reindex.queue) : reindex.queue[i].bits < tables.index.bits
    /\ \A i, j \in 1..Len(reindex.queue) :
          i < j => reindex.queue[i].bits < reindex.queue[j].bits

\* the column was opened on three index files
C8_Witness == last.op = "open" /\ Len(reindex.queue) = 2

\* C9: while the queue is non-empty, reindex.progress is at most the
\* total_chunks of the queue front, across drop_index, trigger_reindex and
\* overlapping reindex calls.
C9_ProgressWithinFront ==
    reindex.queue # <<>> => reindex.progress <= TotalChunks(Head(reindex.queue).bits)

\* a reindex call has stored the end of the front index while another call, which
\* loaded an earlier cursor, is still under way
C9_Witness ==
    /\ reindex.queue # <<>>
    /\ reindex.progress = TotalChunks(Head(reindex.queue).bits)
    /\ \E t \in Threads : rx[t] # -1 /\ rx[t] < reindex.progress

\* a write that returns NeedReindex
C10_NeedReindexStep(key, value) ==
    (/\ last'.op = "write_plan" /\ last'.outcome = "NeedReindex"
     /\ WritePlan(key, value))
        => /\ tables'.index.bits = tables.index.bits + 1
           /\ reindex'.queue = Append(reindex.queue, tables.index)
           /\ GetInIndex(key, tables'.index, tables') # None
           /\ GetInIndex(key, tables'.index, tables').value = value

\* C10: whenever write_plan(key, Some(value)) returns NeedReindex, a reindex was
\* triggered during the call (the current index has one more bit and the
\* displaced index is at the back of the queue) and the plan was emitted: the
\* current index resolves key to a slot that holds value.
C10_NeedReindexMeansTriggered ==
    [][\A key \in Keys, value \in Values : C10_NeedReindexStep(key, value)]_vars

\* C11: drop_index(id) changes the column only when id is the id of the front of
\* the queue: then the front is popped and the progress reset to 0.  For any
\* other id (the current index, a queued index that is not the front, an empty
\* queue) it returns Ok and leaves queue, progress and current index as they were.
C11_DropIndexFrame ==
    [][last'.op = "drop_index" =>
          /\ last'.outcome = "Ok"
          /\ tables' = tables
          /\ last'.found =>
                reindex' = [queue |-> Tail(reindex.queue), progress |-> 0]
          /\ ~last'.found => reindex' = reindex]_vars

C11_Witness ==
    /\ last.op = "drop_index"
    /\ ~last.found
    /\ Len(reindex.queue) = 2
    /\ reindex.progress > 0

\* C12: an index is removed only once fully drained: whenever drop_index pops
\* an index, reindex.progress equals the total_chunks of that index.
C12_PopOnlyWhenDrained ==
    [][Len(reindex'.queue) < Len(reindex.queue) =>
          reindex.progress = TotalChunks(Head(reindex.queue).bits)]_vars

\* C13: validate_plan(InsertIndex(record)) for a record whose table is neither
\* the current index nor queued terminates, whatever the index_bits of the
\* table: each trigger_reindex brings the current index closer to the table, so
\* while a retry is pending the table is still ahead of the current index (or
\* has become the current index, or is queued).
C13_RetryReachesTable ==
    vp # -1 =>
        \/ tables.index.bits <= vp
        \/ \E i \in 1..Len(reindex.queue) : reindex.queue[i].bits = vp

\* C14: enact_plan(InsertIndex(record)) for a record whose table is neither the
\* current index nor a queued index returns a Corruption error and applies
\* nothing: the current index, the queue, the progress and every table are
\* unchanged, and no reindex is triggered.
C14_EnactMissingTable ==
    [][(last'.op = "enact_plan" /\ ~last'.found) =>
          /\ last'.outcome = "Corruption"
          /\ last'.triggers = 0
          /\ tables' = tables
          /\ reindex' = reindex]_vars

C14_Witness ==
    /\ last.op = "enact_plan"
    /\ last.outcome = "Corruption"
    /\ reindex.queue # <<>>
    /\ NonEmpty(tables.index.chunks[0]) # <<>>

\* tier is the first tier whose value_size holds len, or the last tier when
\* none does
FirstFit(value_sizes, len, tier) ==
    IF \E i \in 1..Len(value_sizes) : len <= value_sizes[i]
    THEN /\ len <= value_sizes[tier + 1]
         /\ \A j \in 1..tier : len > value_sizes[j]
    ELSE tier = Len(value_sizes) - 1

\* C15: for every value and tier size list, compress_internal keeps the
\* compressed bytes only when the value is longer than the compression
\* threshold and the compressed form is strictly shorter, and returns the
\* smallest tier whose value_size >= the chosen length (equality selects that
\* tier), or the last (blob) tier when no tier fits; after an insert the key
\* resolves from that tier.
C15_TierSelection ==
    /\ run[1].op = "compress_internal" /\ run[1].ret # None =>
          LET c  == run[1]
              cv == Compress(c.value)
          IN  /\ c.ret.compressed <=> (Len(c.value) > c.treshold /\ Len(cv) < Len(c.value))
              /\ c.ret.bytes = IF c.ret.compressed THEN cv ELSE c.value
              /\ FirstFit(c.value_sizes, Len(c.ret.bytes), c.ret.tier)
    /\ \A key \in Keys : shadow[key] # NoValue =>
          LET ex == SearchAllIndexes(key, tables, reindex)
          IN  /\ ex # None
              /\ ex.tier = run[1].ret.tier
              /\ Get(key) = shadow[key]

C15_Witness ==
    /\ run[1].op = "compress_internal"
    /\ run[1].ret # None
    /\ run[1].ret.compressed
    /\ Len(run[1].ret.bytes) = ValueSize(run[1].ret.tier)
    /\ run[1].ret.tier = 0
    /\ \E key \in Keys : shadow[key] # NoValue /\ last.outcome = "NeedReindex"

\* C16: iter_while invokes the visitor for every live entry of the column, also
\* while a reindex is in progress: also for the keys whose only index entry is
\* in a queued index.
C16_IterVisitsEveryLiveEntry ==
    last.op = "iter_while" =>
        \A key \in Keys : Get(key) # NoValue =>
            \E i \in 1..Len(run[1].ret.items) :
                /\ run[1].ret.items[i].key = key
                /\ run[1].ret.items[i].value = Get(key)

\* C17: the batch returned by one reindex call never has more than
\* MAX_REBALANCE_BATCH pairs.
C17_BatchWithinLimit ==
    last.op = "reindex" => Len(batch) <= MAX_REBALANCE_BATCH

\* C18: a get(k) running beside the drain of the queue (write_reindex_plan of k
\* into the current index, then drop_index of the old index), with no write or
\* delete of k, returns the value of k and never empty.
C18_GetDuringDrain ==
    \A t \in Threads :
        (run[t].op = "get" /\ run[t].pc = "done") => run[t].ret = shadow[run[t].key]

\* some chunk of index table t has no free entry
HasFullChunk(t) ==
    \E c \in 0..(TotalChunks(t.bits) - 1) : Len(NonEmpty(t.chunks[c])) = CHUNK_ENTRIES

C20_FeedFrame ==
    [][(last'.op = "write_reindex_plan" /\ Len(batch') < Len(batch)) =>
          LET key  == Head(batch).key
              addr == Head(batch).addr
              e    == [pk |-> PartialKey(tables'.index.bits, key),
                       tier |-> addr.tier, off |-> addr.off]
          IN  /\ tables'.value = tables.value
              /\ reindex'.progress = reindex.progress
              /\ \A i \in 1..Len(reindex.queue) : reindex'.queue[i] = reindex.queue[i]
              /\ IF SearchIndex(key, tables.index, tables, 0) # None
                 THEN /\ last'.outcome = "Skipped"
                      /\ tables' = tables
                      /\ reindex' = reindex
                 ELSE /\ e \in EntriesOf(tables'.index)
                      /\ IF FreeSlots(tables.index, key) # {}
                         THEN /\ last'.outcome = "Written"
                              /\ reindex' = reindex
                              /\ tables'.index.bits = tables.index.bits
                              /\ EntriesOf(tables.index) \subseteq EntriesOf(tables'.index)
                         ELSE /\ last'.outcome = "NeedReindex"
                              /\ last'.triggers > 0
                              /\ reindex'.queue[Len(reindex.queue) + 1] = tables.index
                              /\ tables'.index.bits > tables.index.bits]_vars

C20_Witness ==
    /\ last.op = "write_reindex_plan"
    /\ last.outcome = "Skipped"
    /\ last.found

\* the index entry of key for the slot at `off` of tier `tier`
C21_NewEntry(index, key, tier, off) ==
    [pk |-> PartialKey(index.bits, key), tier |-> tier, off |-> off]

\* a replace of a key that resolves, by a value that lands in another tier, in a
\* column that neither counts references nor is preimage
C21_ReplaceStep(key, value) ==
    (/\ ~ref_counted /\ ~preimage
     /\ last'.op = "write_plan" /\ last'.found
     /\ SearchAllIndexes(key, tables, reindex) # None
     /\ SearchAllIndexes(key, tables, reindex).tier # CompressInternal(value).tier
     /\ WritePlan(key, value))
        => LET ex   == SearchAllIndexes(key, tables, reindex)
               tier == CompressInternal(value).tier
           IN  /\ reindex' = reindex
               /\ \E off \in 1..Len(tables'.value[tier + 1]) :
                     /\ HasKeyAt(tables'.value[tier + 1], off, key)
                     /\ IF ex.at = 0
                        THEN tables'.index =
                                SetEntry(tables.index, key, ex.sub,
                                         C21_NewEntry(tables.index, key, tier, off))
                        ELSE \E i \in FreeSlots(tables.index, key) :
                                tables'.index =
                                   SetEntry(tables.index, key, i,
                                            C21_NewEntry(tables.index, key, tier, off))

\* C21: when write_plan replaces an existing key by a value that lands in another
\* tier, the new index entry is written to the current index: into the matched
\* probe position when the match came from the current index, and into a new
\* probe position when the match came from a queued index, whose entries stay as
\* they were.
C21_ReplaceGoesToCurrentIndex ==
    [][\A key \in SomeKeys, value \in SomeValues : C21_ReplaceStep(key, value)]_vars

\* the reindex calls made on the current front of the queue
C22_Calls == CallsOn(reindex.queue[1].bits)

\* C22: the reindex calls made one after the other on one front of the queue,
\* with no drop_index of it in between, read chunk ranges that start at chunk 0,
\* each beginning where the previous one ended, non-empty and within
\* total_chunks until total_chunks is reached; the call in which the progress
\* reaches total_chunks, and no other, returns the drop signal Some(front id);
\* every later call returns no signal and an empty batch and leaves the
\* progress as it was.  Between the calls the progress stays where the last
\* call left it.
C22_SequentialDrain ==
    (reindex.queue # <<>> /\ C22_Calls # <<>>) =>
        LET cs    == C22_Calls
            front == reindex.queue[1].bits
            total == TotalChunks(front)
        IN  /\ cs[1].from = 0
            /\ reindex.progress = cs[Len(cs)].to
            /\ \A i \in 2..Len(cs) : cs[i].from = cs[i - 1].to
            /\ \A i \in 1..Len(cs) :
                  IF cs[i].from < total
                  THEN /\ cs[i].from < cs[i].to
                       /\ cs[i].to <= total
                       /\ cs[i].drop = (IF cs[i].to = total THEN front ELSE -1)
                  ELSE /\ cs[i].to = cs[i].from
                       /\ cs[i].drop = -1
                       /\ cs[i].plan = 0
            /\ Cardinality({ i \in 1..Len(cs) : cs[i].drop # -1 }) <= 1

\* the worker has drained a front in two calls, the second of which returned the
\* drop signal, and has called reindex once more before drop_index
C22_Witness ==
    /\ reindex.queue # <<>>
    /\ Len(C22_Calls) >= 3
    /\ C22_Calls[1].to < TotalChunks(reindex.queue[1].bits)
    /\ C22_Calls[2].drop = reindex.queue[1].bits
    /\ C22_Calls[3].plan = 0

\* a set of threads each of which waits for a lock, kept from it only by
\* threads of the set
C23_Deadlocked(S) ==
    /\ S # {}
    /\ \A t \in S : Blockers(t) # {} /\ Blockers(t) \subseteq S

\* C23: no interleaving of get, write_plan, write_reindex_plan, validate_plan,
\* enact_plan, reindex and drop_index deadlocks on the locks of tables and
\* reindex: there is never a set of threads that wait for one another.  A thread
\* that holds the lock of reindex in an operation that takes both holds the lock
\* of tables too; inside trigger_reindex the writer bit of reindex is taken only
\* with the write lock of tables held; and the call of the operation by itself
\* after a trigger starts with no lock held.
C23_NoLockDeadlock ==
    /\ \A S \in SUBSET LockThreads : ~C23_Deadlocked(S)
    /\ \A t \in LockThreads :
          run[t].op \notin {"idle", "drop_index"} =>
              /\ Mode(t, "reindex") # "none" => Mode(t, "tables") # "none"
              /\ Mode(t, "reindex") \in {"claim", "write"} => Mode(t, "tables") = "write"
              /\ run[t].pc = "lock1" => run[t].locks = NoLocks

\* a writer inside trigger_reindex waits for a reader to leave tables, the
\* reader is about to take the read lock of reindex, and a drop_index waits for
\* the writer
C23_Witness ==
    \E t, u, v \in LockThreads :
        /\ run[t].op \in {"write_plan", "write_reindex_plan", "validate_plan"}
        /\ run[t].pc = "upgrade1"
        /\ u \in Blockers(t)
        /\ run[u].pc = "lock2"
        /\ run[v].op = "drop_index"
        /\ t \in Blockers(v)

====
